---- MODULE Spec2Model ----
(***************************************************************************)
(* A model of derpcache (src/derpcache/_cache.py): an on-disk memoization  *)
(* cache made of an index document (index.json) and one object file per    *)
(* fingerprint, with a lazy expiration sweep.                               *)
(*                                                                         *)
(* The file system is the shared state; every activation of a public       *)
(* operation is a frame that advances one file-system step at a time.      *)
(***************************************************************************)
EXTENDS Integers, Sequences, FiniteSets, TLC

\* ------------------------------------------------------------------------
\* Bounds of the model
\* ------------------------------------------------------------------------

\* the clock (datetime.utcnow) runs over 0..MaxTime
MaxTime == 3

\* ------------------------------------------------------------------------
\* Python values and their string conversions
\* ------------------------------------------------------------------------

PyNone == [t |-> "none"]
PyInt(n) == [t |-> "int", n |-> n]
PyStr(s) == [t |-> "str", s |-> s]

\* decimal digits, for str() of a small int
Digits == <<"0", "1", "2", "3", "4", "5", "6", "7", "8", "9">>

\* str(x) of a scalar: the type of the value is forgotten, str(2) = str('2')
Str(v) ==
    CASE v.t = "none" -> "None"
      [] v.t = "int" -> Digits[v.n + 1]
      [] v.t = "str" -> v.s

\* repr(x) of a scalar, as the pieces of the text: a str is quoted
Repr(v) == IF v.t = "str" THEN <<"'", v.s, "'">> ELSE <<Str(v)>>

\* bool(x): the truthiness Python's `if x:` tests
Truthy(v) ==
    CASE v.t = "none" -> FALSE
      [] v.t = "int" -> v.n # 0
      [] v.t = "str" -> v.s # ""

\* The strings of the model in Python's order (code points: '' < digits <
\* upper case < lower case).
StrOrder == <<"", "0", "1", "2", "3", "4", "None", "a", "b", "k", "m.add", "m.mul">>

StrRank(s) == CHOOSE i \in 1..Len(StrOrder) : StrOrder[i] = s

\* s1 <= s2 for Python strings
StrLeq(s1, s2) == StrRank(s1) <= StrRank(s2)

\* sorted(strings): insertion of each element into the sorted rest
RECURSIVE Insert(_, _)
Insert(s, sorted) ==
    IF sorted = <<>> THEN <<s>>
    ELSE IF StrLeq(s, Head(sorted)) THEN <<s>> \o sorted
    ELSE <<Head(sorted)>> \o Insert(s, Tail(sorted))

RECURSIVE Sorted(_)
Sorted(strings) ==
    IF strings = <<>> THEN <<>>
    ELSE Insert(Head(strings), Sorted(Tail(strings)))

\* ------------------------------------------------------------------------
\* Hasher
\* ------------------------------------------------------------------------

\* _sort_nested_dicts on a scalar leaves it alone; _to_string is then str()
_to_string(arg) == Str(arg)

\* _to_string(kwargs): the dict rewritten with its items in sorted order and
\* printed, every value by its repr. kwargs is a function from keys to scalars.
RECURSIVE SortedKeys(_)
SortedKeys(keys) ==
    IF keys = {} THEN <<>>
    ELSE LET k == CHOOSE x \in keys : \A y \in keys : StrLeq(x, y)
         IN  <<k>> \o SortedKeys(keys \ {k})

_kwargs_to_string(kwargs) ==
    LET ks == SortedKeys(DOMAIN kwargs)
    IN  [i \in 1..Len(ks) |-> <<ks[i], Repr(kwargs[ks[i]])>>]

\* hashlib.sha256(string.encode()).hexdigest()[:8], taken to be injective on
\* the strings of the model: the digest of a text is represented by the text.
Sha256Trunc(string) == string

\* a variant of _hash_args that keeps the positional arguments in call order
_hash_args_unsorted(args, kwargs) ==
    LET args_str == [i \in 1..Len(args) |-> _to_string(args[i])]
        kwargs_str == _kwargs_to_string(kwargs)
    IN  Sha256Trunc(<<args_str, kwargs_str>>)

\* _hash_args(*args, **kwargs): the texts of the positional arguments are
\* sorted; str() of the list of texts is followed by the text of kwargs.
_hash_args(args, kwargs) ==
    LET args_str == Sorted([i \in 1..Len(args) |-> _to_string(args[i])])
        kwargs_str == _kwargs_to_string(kwargs)
    IN  Sha256Trunc(<<args_str, kwargs_str>>)

\* _describe_callable(f): a callable is represented by "<module>.<qualname>"
_describe_callable(f) == PyStr(f)

\* the fingerprint cache() computes for a call
\* c = [f, args, kwargs, expires_after, annotation, hash_annotation]
Fingerprint(c) ==
    _hash_args(
        <<_describe_callable(c.f),
          c.expires_after,
          IF c.hash_annotation THEN c.annotation ELSE PyStr("")>> \o c.args,
        c.kwargs)

\* ------------------------------------------------------------------------
\* Inputs of the model
\* ------------------------------------------------------------------------

NoKwargs == <<>>

\* cache(f, *args, _expires_after, _annotation, _hash_annotation, **kwargs)
Call(f, args, kwargs, expires_after, annotation, hash_annotation) ==
    [f |-> f, args |-> args, kwargs |-> kwargs, expires_after |-> expires_after,
     annotation |-> annotation, hash_annotation |-> hash_annotation]

\* the number of times value v occurs in the sequence
Count(seq, v) == Cardinality({i \in 1..Len(seq) : seq[i] = v})

\* one argument list is a reordering of the other
SameUpToOrder(args1, args2) ==
    /\ Len(args1) = Len(args2)
    /\ \A i \in 1..Len(args1) : Count(args1, args1[i]) = Count(args2, args1[i])

\* two calls that differ at most in the order of their positional arguments
Permuted(c1, c2) ==
    /\ c1.f = c2.f
    /\ c1.kwargs = c2.kwargs
    /\ c1.expires_after = c2.expires_after
    /\ c1.annotation = c2.annotation
    /\ c1.hash_annotation = c2.hash_annotation
    /\ SameUpToOrder(c1.args, c2.args)

\* the calls the processes make: add(2, 3) and its permutation add(3, 2)
\* without expiration, add(2, 3) and add(2, 4) with _expires_after in seconds
Calls ==
    {Call("m.add", <<PyInt(2), PyInt(3)>>, NoKwargs, PyNone, PyNone, FALSE),
     Call("m.add", <<PyInt(3), PyInt(2)>>, NoKwargs, PyNone, PyNone, FALSE),
     Call("m.add", <<PyInt(2), PyInt(3)>>, NoKwargs, PyInt(1), PyNone, FALSE),
     Call("m.add", <<PyInt(2), PyInt(4)>>, NoKwargs, PyInt(1), PyNone, FALSE)}

NoCall == Call("", <<>>, NoKwargs, PyNone, PyNone, FALSE)

\* the value f(*args, **kwargs) returns, kept symbolic
Apply(c) == [f |-> c.f, args |-> c.args, kwargs |-> c.kwargs]
NoValue == [f |-> "", args |-> <<>>, kwargs |-> NoKwargs]

NoHash == <<>>

\* ------------------------------------------------------------------------
\* State
\* ------------------------------------------------------------------------

Frames == {1, 2}

VARIABLES
    now,          \* datetime.utcnow(), in seconds
    rootIsCwd,    \* DERPCACHE_ROOT_DIR names the current working directory
    cwdDir,       \* ./.derpcache exists, when the root is another directory
    cacheDir,     \* <root>/.derpcache exists
    indexExists,  \* <root>/.derpcache/index.json exists
    indexFile,    \* its items, in file order: <<[hash, entry], ...>>
    objects,      \* the object files: fingerprint -> pickled value
    frame,        \* the activations of the public operations
    probe         \* a pure function under test: its inputs and its result

vars ==
    <<now, rootIsCwd, cwdDir, cacheDir, indexExists, indexFile, objects, frame, probe>>
fsVars == <<rootIsCwd, cwdDir, cacheDir, indexExists, indexFile, objects>>

EmptyObjects == [h \in {} |-> NoValue]

\* an index (dict) is the sequence of its items; these are its keys
Keys(index) == {index[i].hash : i \in 1..Len(index)}
\* index[hash]
EntryOf(index, hash) == CHOOSE i \in 1..Len(index) : index[i].hash = hash
EntryAt(index, hash) == index[EntryOf(index, hash)].entry

\* what an operation keeps of the one completed before it
\* (sameCall: it was cache() with the inputs of this cache() call;
\* permuted: it was cache() with these inputs up to the order of the
\* positional arguments;
\* cachedBefore: the fingerprint of this cache() call was in the index file
\* when that operation started)
NoPrev ==
    [op |-> "none", outcome |-> "none", sameCall |-> FALSE, permuted |-> FALSE,
     cachedBefore |-> FALSE]

IdleFrame ==
    [pc |-> "idle", op |-> "none", call |-> NoCall, clear_expired |-> FALSE,
     hash |-> NoHash, index |-> <<>>, to_remove |-> <<>>, removed |-> 0,
     swept_at |-> 0,
     called_at |-> 0, value |-> NoValue, invoked |-> FALSE, hit |-> FALSE,
     outcome |-> "none", error |-> "none",
     preDir |-> FALSE, preExists |-> FALSE, preIndex |-> <<>>, preObjects |-> EmptyObjects,
     prev |-> NoPrev]

\* ------------------------------------------------------------------------
\* IndexStore, ObjectStore, ExpirationPolicy
\* ------------------------------------------------------------------------

\* _expires_after_to_float: the seconds of the model are numbers already
_expires_after_to_float(expires_after) == expires_after.n

\* _format_entry: 'expires_after' only if truthy, 'annotation' and
\* 'hash_annotation' only if the annotation is truthy
_format_entry(c, called_at) ==
    [callable |-> Str(_describe_callable(c.f)), called_at |-> called_at]
    @@ (IF Truthy(c.expires_after)
        THEN [expires_after |-> _expires_after_to_float(c.expires_after)]
        ELSE <<>>)
    @@ (IF Truthy(c.annotation)
        THEN [annotation |-> c.annotation.s, hash_annotation |-> c.hash_annotation]
        ELSE <<>>)

\* a variant of _is_expired that expires an entry once its deadline has passed
_is_expired_past_deadline(entry, t) ==
    IF "expires_after" \in DOMAIN entry /\ entry.expires_after # 0
    THEN entry.called_at + entry.expires_after < t
    ELSE FALSE

\* _is_expired(entry), with utcnow() = t. called_at is written by isoformat()
\* and read back by fromisoformat(), which returns the same instant.
_is_expired(entry, t) ==
    IF "expires_after" \in DOMAIN entry /\ entry.expires_after # 0
    THEN entry.called_at + entry.expires_after >= t
    ELSE FALSE

\* the to_remove list of _remove_expired_items: the expired keys, in index order
ExpiredKeys(index, t) ==
    LET expired == SelectSeq(index, LAMBDA item : _is_expired(item.entry, t))
    IN  [i \in 1..Len(expired) |-> expired[i].hash]

\* the elements of the list to_remove
Range(seq) == {seq[i] : i \in 1..Len(seq)}

\* a variant of _remove_entries that filters nothing
_remove_entries_keeps_all(index, to_remove) == index

\* _remove_entries: the dict without the keys of to_remove (before its write)
_remove_entries(index, to_remove) ==
    SelectSeq(index, LAMBDA item : item.hash \notin Range(to_remove))

\* _sort_index: sorted() by called_at is stable
RECURSIVE _sort_index(_)
_sort_index(index) ==
    IF index = <<>> THEN <<>>
    ELSE LET n == Len(index)
             last == index[n]
             front == _sort_index(SubSeq(index, 1, n - 1))
             before == SelectSeq(front, LAMBDA x : x.entry.called_at <= last.entry.called_at)
             after == SelectSeq(front, LAMBDA x : x.entry.called_at > last.entry.called_at)
         IN  before \o <<last>> \o after

\* index[hash] = entry of _add_index_entry (before its write): a present key
\* keeps its place, a new key goes last
SetItem(index, hash, entry) ==
    IF hash \in Keys(index)
    THEN [i \in 1..Len(index) |->
            IF index[i].hash = hash THEN [hash |-> hash, entry |-> entry] ELSE index[i]]
    ELSE Append(index, [hash |-> hash, entry |-> entry])

\* a variant of os.remove that leaves the file
WithoutObjectKept(objs, hash) == objs

\* os.remove of one object file
WithoutObject(objs, hash) == [h \in (DOMAIN objs) \ {hash} |-> objs[h]]

\* _write_object_by_hash: the file is created or overwritten
WithObject(objs, hash, value) ==
    [h \in (DOMAIN objs) \cup {hash} |-> IF h = hash THEN value ELSE objs[h]]

\* ------------------------------------------------------------------------
\* Operations, one file-system step at a time
\* ------------------------------------------------------------------------

NoProbe == [kind |-> "none"]

Init ==
    /\ now = 0
    /\ rootIsCwd = TRUE
    /\ cwdDir = FALSE
    /\ cacheDir = FALSE
    /\ indexExists = FALSE
    /\ indexFile = <<>>
    /\ objects = EmptyObjects
    /\ frame = [p \in Frames |-> IdleFrame]
    /\ probe = NoProbe

\* the frame can start an operation
Ready(p) == frame[p].pc \in {"idle", "done"}

\* a fresh activation of operation op, remembering the state it starts from
Start(p, op) ==
    [IdleFrame EXCEPT
        !.op = op,
        !.preDir = cacheDir,
        !.preExists = indexExists,
        !.preIndex = indexFile,
        !.preObjects = objects,
        !.prev = [op |-> frame[p].op, outcome |-> frame[p].outcome,
                  sameCall |-> FALSE, permuted |-> FALSE, cachedBefore |-> FALSE]]

\* the operation ends: it returns ("ret"), the callable's exception
\* propagates ("raise") or a file-system error propagates ("error")
Finish(f, outcome, error) ==
    [f EXCEPT !.pc = "done", !.outcome = outcome, !.error = error]

\* datetime.utcnow() advances
Tick ==
    /\ now < MaxTime
    /\ now' = now + 1
    /\ UNCHANGED <<fsVars, frame, probe>>

\* cache(f, *args, ...) is called; the fingerprint depends on the inputs only
cache(p, c) ==
    /\ Ready(p)
    /\ frame' = [frame EXCEPT ![p] =
            [Start(p, "cache") EXCEPT
                !.pc = "init", !.call = c, !.clear_expired = TRUE,
                !.hash = Fingerprint(c),
                !.prev.sameCall = (frame[p].op = "cache" /\ frame[p].call = c),
                !.prev.permuted = (frame[p].op = "cache" /\ Permuted(frame[p].call, c)),
                !.prev.cachedBefore = (Fingerprint(c) \in Keys(frame[p].preIndex))]]
    /\ UNCHANGED <<now, fsVars, probe>>

\* _init_cache: the test `_CACHE_DIR not in os.listdir(_get_root_dir())`
_init_cache(p) ==
    /\ frame[p].pc = "init"
    /\ frame' = [frame EXCEPT ![p].pc = IF cacheDir THEN "read" ELSE "mkdir"]
    /\ UNCHANGED <<now, fsVars, probe>>

\* _init_cache: os.mkdir('.derpcache'), a path relative to the current
\* working directory; the directory may have appeared since the test
_init_cache_mkdir(p) ==
    /\ frame[p].pc = "mkdir"
    /\ IF rootIsCwd
       THEN IF cacheDir
            THEN /\ frame' = [frame EXCEPT ![p] = Finish(@, "error", "FileExistsError")]
                 /\ UNCHANGED <<cacheDir, cwdDir>>
            ELSE /\ cacheDir' = TRUE
                 /\ frame' = [frame EXCEPT ![p].pc = "init_write"]
                 /\ UNCHANGED cwdDir
       ELSE IF cwdDir
            THEN /\ frame' = [frame EXCEPT ![p] = Finish(@, "error", "FileExistsError")]
                 /\ UNCHANGED <<cacheDir, cwdDir>>
            ELSE /\ cwdDir' = TRUE
                 /\ frame' = [frame EXCEPT ![p].pc = "init_write"]
                 /\ UNCHANGED cacheDir
    /\ UNCHANGED <<now, rootIsCwd, indexExists, indexFile, objects, probe>>

\* _init_cache: _write_index({})
_init_cache_write_index(p) ==
    /\ frame[p].pc = "init_write"
    /\ IF cacheDir
       THEN /\ indexExists' = TRUE
            /\ indexFile' = <<>>
            /\ frame' = [frame EXCEPT ![p].pc = "read"]
       ELSE /\ frame' = [frame EXCEPT ![p] = Finish(@, "error", "FileNotFoundError")]
            /\ UNCHANGED <<indexExists, indexFile>>
    /\ UNCHANGED <<now, rootIsCwd, cwdDir, cacheDir, objects, probe>>

\* a variant of _read_index that creates a missing cache root and index
_read_index_creates(p) ==
    /\ frame[p].pc = "read"
    /\ cacheDir' = TRUE
    /\ indexExists' = TRUE
    /\ indexFile' = indexFile
    /\ frame' = [frame EXCEPT ![p] =
            [@ EXCEPT !.index = indexFile,
                      !.pc = IF frame[p].clear_expired THEN "sweep" ELSE "sort"]]
    /\ UNCHANGED <<now, rootIsCwd, cwdDir, objects, probe>>

\* get_index: _read_index()
_read_index(p) ==
    /\ frame[p].pc = "read"
    /\ IF indexExists
       THEN frame' = [frame EXCEPT ![p] =
                [@ EXCEPT !.index = indexFile,
                          !.pc = IF frame[p].clear_expired THEN "sweep" ELSE "sort"]]
       ELSE frame' = [frame EXCEPT ![p] = Finish(@, "error", "FileNotFoundError")]
    /\ UNCHANGED <<now, fsVars, probe>>

\* _remove_expired_items: to_remove is collected and _remove_entries writes
\* the index without it
_remove_expired_items(p) ==
    /\ frame[p].pc = "sweep"
    /\ LET to_remove == ExpiredKeys(frame[p].index, now)
           index == _remove_entries(frame[p].index, to_remove)
       IN  IF cacheDir
           THEN /\ indexExists' = TRUE
                /\ indexFile' = index
                /\ frame' = [frame EXCEPT ![p] =
                        [@ EXCEPT !.index = index, !.to_remove = to_remove,
                                  !.removed = 0, !.swept_at = now,
                                  !.pc = IF to_remove = <<>> THEN "sort" ELSE "remove"]]
           ELSE /\ frame' = [frame EXCEPT ![p] =
                        Finish([@ EXCEPT !.to_remove = to_remove, !.swept_at = now],
                               "error", "FileNotFoundError")]
                /\ UNCHANGED <<indexExists, indexFile>>
    /\ UNCHANGED <<now, rootIsCwd, cwdDir, cacheDir, objects, probe>>

\* _remove_objects: os.remove of the next object file of to_remove
_remove_objects(p) ==
    /\ frame[p].pc = "remove"
    /\ LET hash == frame[p].to_remove[frame[p].removed + 1]
       IN  IF hash \in DOMAIN objects
           THEN /\ objects' = WithoutObject(objects, hash)
                /\ frame' = [frame EXCEPT ![p] =
                        [@ EXCEPT !.removed = @ + 1,
                                  !.pc = IF frame[p].removed + 1 = Len(frame[p].to_remove)
                                         THEN "sort" ELSE "remove"]]
           ELSE /\ frame' = [frame EXCEPT ![p] = Finish(@, "error", "FileNotFoundError")]
                /\ UNCHANGED objects
    /\ UNCHANGED <<now, rootIsCwd, cwdDir, cacheDir, indexExists, indexFile, probe>>

\* get_index: _sort_index and return; cache(): `hash in index`, and on a miss
\* called_at = utcnow()
Lookup(p) ==
    /\ frame[p].pc = "sort"
    /\ LET index == _sort_index(frame[p].index)
       IN  frame' = [frame EXCEPT ![p] =
                IF frame[p].op = "get_index"
                THEN Finish([@ EXCEPT !.index = index], "ret", "none")
                ELSE IF frame[p].hash \in Keys(index)
                THEN [@ EXCEPT !.index = index, !.hit = TRUE, !.pc = "hit"]
                ELSE [@ EXCEPT !.index = index, !.called_at = now, !.pc = "invoke"]]
    /\ UNCHANGED <<now, fsVars, probe>>

\* a variant of the hit that refreshes called_at of the entry it reads
cache_hit_touch(p) ==
    /\ frame[p].pc = "hit"
    /\ frame[p].hash \in DOMAIN objects
    /\ indexFile' = [i \in 1..Len(indexFile) |->
            IF indexFile[i].hash = frame[p].hash
            THEN [indexFile[i] EXCEPT !.entry.called_at = now]
            ELSE indexFile[i]]
    /\ frame' = [frame EXCEPT ![p] =
            Finish([@ EXCEPT !.value = objects[frame[p].hash]], "ret", "none")]
    /\ UNCHANGED <<now, rootIsCwd, cwdDir, cacheDir, indexExists, objects, probe>>

\* a variant of the hit that calls the callable when the object file is missing
cache_hit_recomputes(p) ==
    /\ frame[p].pc = "hit"
    /\ frame' = [frame EXCEPT ![p] =
            IF frame[p].hash \in DOMAIN objects
            THEN Finish([@ EXCEPT !.value = objects[frame[p].hash]], "ret", "none")
            ELSE [@ EXCEPT !.hit = FALSE, !.called_at = now, !.pc = "invoke"]]
    /\ UNCHANGED <<now, fsVars, probe>>

\* cache() on a hit: get_by_hash(hash)
cache_hit(p) ==
    /\ frame[p].pc = "hit"
    /\ frame' = [frame EXCEPT ![p] =
            IF frame[p].hash \in DOMAIN objects
            THEN Finish([@ EXCEPT !.value = objects[frame[p].hash]], "ret", "none")
            ELSE Finish(@, "error", "FileNotFoundError")]
    /\ UNCHANGED <<now, fsVars, probe>>

\* cache() on a miss: value = f(*args, **kwargs) returns
InvokeReturn(p) ==
    /\ frame[p].pc = "invoke"
    /\ frame' = [frame EXCEPT ![p] =
            [@ EXCEPT !.value = Apply(frame[p].call), !.invoked = TRUE,
                      !.pc = "write_object"]]
    /\ UNCHANGED <<now, fsVars, probe>>

\* cache() on a miss: f(*args, **kwargs) raises
InvokeRaise(p) ==
    /\ frame[p].pc = "invoke"
    /\ frame' = [frame EXCEPT ![p] = Finish([@ EXCEPT !.invoked = TRUE], "raise", "none")]
    /\ UNCHANGED <<now, fsVars, probe>>

\* a variant of the miss that goes on to the index entry without writing the
\* object file
_write_object_by_hash_skipped(p) ==
    /\ frame[p].pc = "write_object"
    /\ frame' = [frame EXCEPT ![p].pc = "add_entry"]
    /\ UNCHANGED <<now, fsVars, probe>>

\* cache() on a miss: _write_object_by_hash(hash, value)
_write_object_by_hash(p) ==
    /\ frame[p].pc = "write_object"
    /\ IF cacheDir
       THEN /\ objects' = WithObject(objects, frame[p].hash, frame[p].value)
            /\ frame' = [frame EXCEPT ![p].pc = "add_entry"]
       ELSE /\ frame' = [frame EXCEPT ![p] = Finish(@, "error", "FileNotFoundError")]
            /\ UNCHANGED objects
    /\ UNCHANGED <<now, rootIsCwd, cwdDir, cacheDir, indexExists, indexFile, probe>>

\* a variant of _add_index_entry that puts the entry into the index file as it
\* is at the write
_add_index_entry_merging(p) ==
    /\ frame[p].pc = "add_entry"
    /\ LET entry == _format_entry(frame[p].call, frame[p].called_at)
           index == SetItem(frame[p].index, frame[p].hash, entry)
       IN  IF cacheDir
           THEN /\ indexExists' = TRUE
                /\ indexFile' = SetItem(indexFile, frame[p].hash, entry)
                /\ frame' = [frame EXCEPT ![p] =
                        Finish([@ EXCEPT !.index = index], "ret", "none")]
           ELSE /\ frame' = [frame EXCEPT ![p] =
                        Finish([@ EXCEPT !.index = index], "error", "FileNotFoundError")]
                /\ UNCHANGED <<indexExists, indexFile>>
    /\ UNCHANGED <<now, rootIsCwd, cwdDir, cacheDir, objects, probe>>

\* cache() on a miss: _add_index_entry(index, hash, _format_entry(...))
_add_index_entry(p) ==
    /\ frame[p].pc = "add_entry"
    /\ LET entry == _format_entry(frame[p].call, frame[p].called_at)
           index == SetItem(frame[p].index, frame[p].hash, entry)
       IN  IF cacheDir
           THEN /\ indexExists' = TRUE
                /\ indexFile' = index
                /\ frame' = [frame EXCEPT ![p] =
                        Finish([@ EXCEPT !.index = index], "ret", "none")]
           ELSE /\ frame' = [frame EXCEPT ![p] =
                        Finish([@ EXCEPT !.index = index], "error", "FileNotFoundError")]
                /\ UNCHANGED <<indexExists, indexFile>>
    /\ UNCHANGED <<now, rootIsCwd, cwdDir, cacheDir, objects, probe>>

\* get_index(clear_expired) is called
get_index(p, clear_expired) ==
    /\ Ready(p)
    /\ frame' = [frame EXCEPT ![p] =
            [Start(p, "get_index") EXCEPT !.pc = "read", !.clear_expired = clear_expired]]
    /\ UNCHANGED <<now, fsVars, probe>>

\* get_by_hash(hash), called directly
get_by_hash(p, hash) ==
    /\ Ready(p)
    /\ frame' = [frame EXCEPT ![p] =
            IF hash \in DOMAIN objects
            THEN Finish([Start(p, "get_by_hash") EXCEPT
                            !.hash = hash, !.value = objects[hash]], "ret", "none")
            ELSE Finish([Start(p, "get_by_hash") EXCEPT !.hash = hash],
                        "error", "FileNotFoundError")]
    /\ UNCHANGED <<now, fsVars, probe>>

\* a variant of clear_cache that empties the cache root and leaves it
clear_cache_leaves_root(p) ==
    /\ Ready(p)
    /\ indexExists' = FALSE
    /\ indexFile' = <<>>
    /\ objects' = EmptyObjects
    /\ frame' = [frame EXCEPT ![p] = Finish(Start(p, "clear_cache"), "ret", "none")]
    /\ UNCHANGED <<now, rootIsCwd, cwdDir, cacheDir, probe>>

\* clear_cache(): shutil.rmtree of <root>/.derpcache, FileNotFoundError passed
clear_cache(p) ==
    /\ Ready(p)
    /\ cacheDir' = FALSE
    /\ indexExists' = FALSE
    /\ indexFile' = <<>>
    /\ objects' = EmptyObjects
    /\ frame' = [frame EXCEPT ![p] = Finish(Start(p, "clear_cache"), "ret", "none")]
    /\ UNCHANGED <<now, rootIsCwd, cwdDir, probe>>

\* the steps inside an operation
Step(p) ==
    \/ _init_cache(p)
    \/ _init_cache_mkdir(p)
    \/ _init_cache_write_index(p)
    \/ _read_index(p)
    \/ _remove_expired_items(p)
    \/ _remove_objects(p)
    \/ Lookup(p)
    \/ cache_hit(p)
    \/ InvokeReturn(p)
    \/ InvokeRaise(p)
    \/ _write_object_by_hash(p)
    \/ _add_index_entry(p)

\* the fingerprints get_by_hash is asked for
Hashes == {Fingerprint(c) : c \in Calls}

\* one process: frame 1 runs one public operation after the other
Next ==
    \/ Tick
    \/ \E c \in Calls : cache(1, c)
    \/ \E b \in BOOLEAN : get_index(1, b)
    \/ \E h \in Hashes : get_by_hash(1, h)
    \/ clear_cache(1)
    \/ Step(1)

Spec == Init /\ [][Next]_vars

\* ------------------------------------------------------------------------
\* The pure functions on bounded inputs
\* ------------------------------------------------------------------------

\* the file system and the frames, at rest
Rest ==
    /\ now = 0
    /\ rootIsCwd = TRUE
    /\ cwdDir = FALSE
    /\ cacheDir = FALSE
    /\ indexExists = FALSE
    /\ indexFile = <<>>
    /\ objects = EmptyObjects
    /\ frame = [p \in Frames |-> IdleFrame]

\* entries as index.json can hold them: with and without 'expires_after'
\* (0 and a negative number included), with and without an annotation
ProbeEntries ==
    {[callable |-> "m.add", called_at |-> t] @@ e @@ a :
        t \in 0..MaxTime,
        e \in {<<>>} \cup {[expires_after |-> x] : x \in {-1, 0, 1, 2}},
        a \in {<<>>, [annotation |-> "a", hash_annotation |-> FALSE]}}

InitExpired ==
    /\ Rest
    /\ probe \in {[kind |-> "is_expired", entry |-> e, t |-> t,
                   evaluated |-> FALSE, expired |-> FALSE] :
                  e \in ProbeEntries, t \in 0..(MaxTime + 2)}

\* expired = _is_expired(entry), at utcnow() = t
EvalExpired ==
    /\ probe.kind = "is_expired"
    /\ ~probe.evaluated
    /\ probe' = [probe EXCEPT !.evaluated = TRUE,
                              !.expired = _is_expired(probe.entry, probe.t)]
    /\ UNCHANGED <<now, fsVars, frame>>

NextExpired == EvalExpired

SpecExpired == InitExpired /\ [][NextExpired]_vars

\* calls whose texts can meet: an int and a str argument, an annotation that
\* prints like an argument, an expiration, a keyword argument
HashArgs ==
    {<<>>, <<PyInt(2)>>, <<PyStr("a")>>, <<PyInt(2), PyStr("a")>>, <<PyStr("a"), PyInt(2)>>}
HashKwargs == {NoKwargs, [k |-> PyInt(1)]}
HashCalls ==
    {Call(f, a, k, e, n, h) :
        f \in {"m.add", "m.mul"}, a \in HashArgs, k \in HashKwargs,
        e \in {PyNone, PyInt(2)}, n \in {PyNone, PyStr("a"), PyStr("2")},
        h \in BOOLEAN}

InitHash ==
    /\ Rest
    /\ probe \in {[kind |-> "hash", a |-> a, b |-> b, evaluated |-> FALSE,
                   hash_a |-> NoHash, hash_b |-> NoHash] :
                  a \in HashCalls, b \in HashCalls}

\* the fingerprints cache() computes for the two calls
EvalHash ==
    /\ probe.kind = "hash"
    /\ ~probe.evaluated
    /\ probe' = [probe EXCEPT !.evaluated = TRUE,
                              !.hash_a = Fingerprint(probe.a),
                              !.hash_b = Fingerprint(probe.b)]
    /\ UNCHANGED <<now, fsVars, frame>>

NextHash == EvalHash

SpecHash == InitHash /\ [][NextHash]_vars

\* the values of _annotation: absent, strings, the string 'None', the empty
\* string
Annotations == {PyNone, PyStr("a"), PyStr("2"), PyStr("None"), PyStr("")}

\* two calls that differ at most in _annotation
InitAnnotation ==
    /\ Rest
    /\ probe \in {[kind |-> "hash",
                    a |-> Call(f, a, k, e, n1, h), b |-> Call(f, a, k, e, n2, h),
                    evaluated |-> FALSE, hash_a |-> NoHash, hash_b |-> NoHash] :
                   f \in {"m.add", "m.mul"}, a \in HashArgs, k \in HashKwargs,
                   e \in {PyNone, PyInt(2)}, n1 \in Annotations, n2 \in Annotations,
                   h \in BOOLEAN}

NextAnnotation == EvalHash

SpecAnnotation == InitAnnotation /\ [][NextAnnotation]_vars

\* ------------------------------------------------------------------------
\* The scenario add(2, 3), add(3, 2), add(2, 4), beside the hasher on
\* bounded inputs
\* ------------------------------------------------------------------------

\* add(2, 3), add(3, 2) and add(2, 4) without options, and add(2, 3) with an
\* expiration
AddCalls ==
    {Call("m.add", <<PyInt(2), PyInt(3)>>, NoKwargs, PyNone, PyNone, FALSE),
     Call("m.add", <<PyInt(3), PyInt(2)>>, NoKwargs, PyNone, PyNone, FALSE),
     Call("m.add", <<PyInt(2), PyInt(4)>>, NoKwargs, PyNone, PyNone, FALSE),
     Call("m.add", <<PyInt(2), PyInt(3)>>, NoKwargs, PyInt(1), PyNone, FALSE)}

\* either the process runs from an empty directory, or no process runs and
\* two calls are hashed
InitPerm ==
    \/ Rest /\ probe = NoProbe
    \/ /\ now = 0
       /\ rootIsCwd = TRUE
       /\ cwdDir = FALSE
       /\ cacheDir = FALSE
       /\ indexExists = FALSE
       /\ indexFile = <<>>
       /\ objects = EmptyObjects
       /\ frame = [p \in Frames |-> [IdleFrame EXCEPT !.pc = "off"]]
       /\ probe \in {[kind |-> "hash", a |-> a, b |-> b, evaluated |-> FALSE,
                       hash_a |-> NoHash, hash_b |-> NoHash] :
                      a \in HashCalls, b \in HashCalls}

NextPerm ==
    \/ EvalHash
    \/ frame[1].pc # "off" /\ Tick
    \/ \E c \in AddCalls : cache(1, c)
    \/ clear_cache(1)
    \/ Step(1)

SpecPerm == InitPerm /\ [][NextPerm]_vars

\* ------------------------------------------------------------------------
\* One process at a time, with crashes
\* ------------------------------------------------------------------------

\* the process dies between two file-system steps of an operation; the next
\* process starts with the files as they are and no memory of it
Crash(p) ==
    /\ ~Ready(p)
    /\ frame' = [frame EXCEPT ![p] = IdleFrame]
    /\ UNCHANGED <<now, fsVars, probe>>

NextCrash ==
    \/ Tick
    \/ \E c \in Calls : cache(1, c)
    \/ \E b \in BOOLEAN : get_index(1, b)
    \/ Step(1)
    \/ Crash(1)

SpecCrash == Init /\ [][NextCrash]_vars

\* ------------------------------------------------------------------------
\* One process on a cache root as earlier runs and the outside have left it
\* ------------------------------------------------------------------------

\* the item cache() writes for call c at utcnow() = 0
DiskItem(c) == [hash |-> Fingerprint(c), entry |-> _format_entry(c, 0)]

DiskItems == {DiskItem(c) : c \in Calls}

\* index files: the items of some calls, one per fingerprint, in any order.
\* Items written at a later wall-clock time than the present one (the clock
\* of utcnow() has been set back since) are expired together.
DiskIndexes ==
    LET all == UNION {[1..n -> DiskItems] : n \in 0..3}
    IN  {index \in all :
            \A i \in 1..Len(index), j \in 1..Len(index) :
                index[i].hash = index[j].hash => i = j}

\* object files: those of any of the fingerprints, the others deleted or
\* never written
DiskObjects ==
    {[h \in S |-> Apply(CHOOSE c \in Calls : Fingerprint(c) = h)] : S \in SUBSET Hashes}

InitDisk ==
    /\ now = 0
    /\ rootIsCwd = TRUE
    /\ cwdDir = FALSE
    /\ \/ /\ cacheDir = FALSE
          /\ indexExists = FALSE
          /\ indexFile = <<>>
          /\ objects = EmptyObjects
       \/ /\ cacheDir = TRUE
          /\ indexExists = TRUE
          /\ indexFile \in DiskIndexes
          /\ objects \in DiskObjects
    /\ frame = [p \in Frames |-> IdleFrame]
    /\ probe = NoProbe

\* the operation to start is the first or the second of the run
FirstOrSecond == frame[1].prev.op = "none"

NextDisk ==
    \/ Tick
    \/ \E c \in Calls : FirstOrSecond /\ cache(1, c)
    \/ FirstOrSecond /\ get_index(1, TRUE)
    \/ Step(1)

SpecDisk == InitDisk /\ [][NextDisk]_vars

\* ------------------------------------------------------------------------
\* One process, with DERPCACHE_ROOT_DIR naming the current working directory
\* or another, existing and empty, directory
\* ------------------------------------------------------------------------

InitRoot ==
    /\ now = 0
    /\ rootIsCwd \in BOOLEAN
    /\ cwdDir = FALSE
    /\ cacheDir = FALSE
    /\ indexExists = FALSE
    /\ indexFile = <<>>
    /\ objects = EmptyObjects
    /\ frame = [p \in Frames |-> IdleFrame]
    /\ probe = NoProbe

NextRoot ==
    \/ Tick
    \/ \E c \in Calls : cache(1, c)
    \/ clear_cache(1)
    \/ Step(1)

SpecRoot == InitRoot /\ [][NextRoot]_vars

\* ------------------------------------------------------------------------
\* Two processes on one cache root
\* ------------------------------------------------------------------------

\* add(2, 3) and add(2, 4) without options, and add(2, 4) with an expiration
TwoCalls ==
    {Call("m.add", <<PyInt(2), PyInt(3)>>, NoKwargs, PyNone, PyNone, FALSE),
     Call("m.add", <<PyInt(2), PyInt(4)>>, NoKwargs, PyNone, PyNone, FALSE),
     Call("m.add", <<PyInt(2), PyInt(4)>>, NoKwargs, PyInt(1), PyNone, FALSE)}

\* process p has not called cache() yet: each process makes one call
FirstCall(p) == frame[p].op = "none"

\* the steps of the two processes interleave at the file-system calls
NextTwo ==
    \/ Tick
    \/ \E p \in Frames, c \in TwoCalls : FirstCall(p) /\ cache(p, c)
    \/ \E p \in Frames : Step(p)

SpecTwo == Init /\ [][NextTwo]_vars

\* ------------------------------------------------------------------------
\* One process whose callable calls cache(): frame 2 is the nested activation
\* ------------------------------------------------------------------------

\* the callable of the second cache() call of the process is running and has
\* not called cache() yet
CallableCallsCache ==
    /\ frame[1].pc = "invoke"
    /\ frame[1].prev.op = "cache"
    /\ FirstCall(2)

\* the nested call, if any, has come back to the callable
NestedCallOver == Ready(2)

\* one thread: the outer activation waits in f(*args, **kwargs) while the
\* nested one runs
NextNested ==
    \/ Tick
    \/ \E c \in Calls : FirstOrSecond /\ cache(1, c)
    \/ \E c \in Calls : CallableCallsCache /\ cache(2, c)
    \/ Step(2)
    \/ _init_cache(1)
    \/ _init_cache_mkdir(1)
    \/ _init_cache_write_index(1)
    \/ _read_index(1)
    \/ _remove_expired_items(1)
    \/ _remove_objects(1)
    \/ Lookup(1)
    \/ cache_hit(1)
    \/ NestedCallOver /\ InvokeReturn(1)
    \/ NestedCallOver /\ InvokeRaise(1)
    \/ _write_object_by_hash(1)
    \/ _add_index_entry(1)

SpecNested == Init /\ [][NextNested]_vars

\* ------------------------------------------------------------------------
\* Properties
\* ------------------------------------------------------------------------

\* the index as a mapping, whatever the order of its items
IndexMap(index) == [h \in Keys(index) |-> EntryAt(index, h)]

\* frame 1 has completed operation op
Completed(op) == frame[1].pc = "done" /\ frame[1].op = op

\* C1: two consecutive cache() calls with equal inputs that both return, with
\* no other operation between them, invoke the callable once: the second call
\* is a hit and does not invoke it.
C1_SecondCallIsHit ==
    (/\ Completed("cache")
     /\ frame[1].outcome = "ret"
     /\ frame[1].prev.op = "cache"
     /\ frame[1].prev.outcome = "ret"
     /\ frame[1].prev.sameCall)
    => (frame[1].hit /\ ~frame[1].invoked)

\* C2: whenever the process is between two operations, the fingerprints of
\* the persisted index are the names of the stored object files.
C2_IndexMatchesObjects ==
    Ready(1) => /\ Keys(indexFile) = DOMAIN objects
                /\ (~indexExists => indexFile = <<>>)
                /\ (~cacheDir => ~indexExists)

C2_Witness ==
    /\ Completed("cache")
    /\ frame[1].outcome = "raise"
    /\ frame[1].to_remove # <<>>
    /\ indexFile # <<>>

\* C3: when the callable raises on a miss, cache() ends with that exception
\* and the call's fingerprint has no index entry and no object file.
C3_RaiseLeavesNothing ==
    (Completed("cache") /\ frame[1].outcome = "raise")
        => /\ frame[1].invoked
           /\ frame[1].hash \notin Keys(indexFile)
           /\ frame[1].hash \notin DOMAIN objects

C3_Witness ==
    /\ Completed("cache")
    /\ frame[1].outcome = "raise"
    /\ frame[1].prev.cachedBefore
    /\ frame[1].hash \in Keys(frame[1].preIndex)

\* the entries of the index the operation started from that the policy
\* marks expired at the time of its sweep
ExpiredAtSweep ==
    {h \in Keys(frame[1].preIndex) :
        _is_expired(EntryAt(frame[1].preIndex, h), frame[1].swept_at)}

\* the entries of that index without 'expires_after'
NeverExpiring ==
    {h \in Keys(frame[1].preIndex) :
        "expires_after" \notin DOMAIN EntryAt(frame[1].preIndex, h)}

\* get_index(clear_expired=True) has returned, or cache() has just done its
\* lookup
AfterLookup ==
    \/ Completed("get_index") /\ frame[1].clear_expired /\ frame[1].outcome = "ret"
    \/ frame[1].op = "cache" /\ frame[1].pc \in {"hit", "invoke"}

\* the sweep of the running or completed operation has written the index
AfterSweep ==
    /\ frame[1].op \in {"cache", "get_index"}
    /\ frame[1].clear_expired
    /\ \/ frame[1].pc \in {"remove", "sort", "hit", "invoke", "write_object", "add_entry"}
       \/ frame[1].pc = "done" /\ frame[1].outcome \in {"ret", "raise"}

\* C4: after get_index(clear_expired=True) and after the lookup of cache(),
\* every entry expired at that sweep is gone from the returned index, from the
\* index file and from the object files; an entry without expires_after
\* survives every sweep, with its object file.
C4_SweepRemovesExpiredOnly ==
    /\ AfterLookup =>
        \A h \in ExpiredAtSweep :
            /\ h \notin Keys(frame[1].index)
            /\ h \notin Keys(indexFile)
            /\ h \notin DOMAIN objects
    /\ AfterSweep =>
        \A h \in NeverExpiring :
            /\ h \in Keys(frame[1].index)
            /\ h \in Keys(indexFile)
            /\ EntryAt(indexFile, h) = EntryAt(frame[1].preIndex, h)
            /\ h \in DOMAIN objects

C4_Witness ==
    /\ Completed("get_index")
    /\ frame[1].clear_expired
    /\ frame[1].outcome = "ret"
    /\ ExpiredAtSweep # {}
    /\ NeverExpiring # {}

\* C5: clear_cache() returns whether or not the cache root exists and leaves
\* no cache root; the next cache() call creates the root with an empty index,
\* invokes the callable, and when it returns the index holds exactly the entry
\* of that call.
C5_ClearIsTotal ==
    /\ Completed("clear_cache") =>
        /\ frame[1].outcome = "ret"
        /\ ~cacheDir /\ ~indexExists /\ objects = EmptyObjects
    /\ (frame[1].op = "cache" /\ frame[1].prev.op = "clear_cache") =>
        /\ frame[1].pc = "read" => (cacheDir /\ indexExists /\ indexFile = <<>>)
        /\ frame[1].pc = "done" =>
            /\ frame[1].outcome \in {"ret", "raise"}
            /\ frame[1].invoked /\ ~frame[1].hit
        /\ (frame[1].pc = "done" /\ frame[1].outcome = "ret") =>
            /\ indexFile = <<[hash |-> frame[1].hash,
                              entry |-> _format_entry(frame[1].call, frame[1].called_at)]>>
            /\ DOMAIN objects = {frame[1].hash}

C5_Witness ==
    /\ Completed("cache")
    /\ frame[1].prev.op = "clear_cache"
    /\ frame[1].prev.cachedBefore
    /\ frame[1].outcome = "ret"

\* C6: get_index() called while the index file does not exist ends with
\* FileNotFoundError and creates neither the cache root nor the index file.
C6_GetIndexNotInitialized ==
    (Completed("get_index") /\ ~frame[1].preExists) =>
        /\ frame[1].outcome = "error"
        /\ frame[1].error = "FileNotFoundError"
        /\ ~indexExists
        /\ cacheDir = frame[1].preDir
        /\ objects = frame[1].preObjects

C6_Witness ==
    /\ Completed("get_index")
    /\ ~frame[1].preExists
    /\ frame[1].prev.op = "clear_cache"

\* cache() has returned from a hit
CompletedHit == Completed("cache") /\ frame[1].hit /\ frame[1].outcome = "ret"

\* C7 as stated: a cache() call that ends in a hit leaves the index contents
\* and the object files as they were before the call.
C7_HitChangesNothing ==
    CompletedHit =>
        /\ IndexMap(indexFile) = IndexMap(frame[1].preIndex)
        /\ objects = frame[1].preObjects

\* C7 as amended: a cache() call that ends in a hit changes the cache through
\* its lookup sweep only: the index and the object files are those from before
\* the call without the entries the sweep found expired, and the same as
\* before when it found none.
C7_HitChangesOnlyBySweep ==
    CompletedHit =>
        /\ Range(frame[1].to_remove) = ExpiredAtSweep
        /\ indexFile =
            SelectSeq(frame[1].preIndex, LAMBDA item : item.hash \notin ExpiredAtSweep)
        /\ objects =
            [h \in (DOMAIN frame[1].preObjects) \ ExpiredAtSweep |-> frame[1].preObjects[h]]
        /\ frame[1].value = frame[1].preObjects[frame[1].hash]
        /\ ExpiredAtSweep = {} =>
            (indexFile = frame[1].preIndex /\ objects = frame[1].preObjects)

C7_Witness == CompletedHit /\ frame[1].to_remove # <<>>

\* one step: an entry of the index file keeps all its fields while it stays
\* there; the keys of the index file change only when a miss adds its key
\* after the callable has returned, when a sweep removes expired keys, or
\* when clear_cache removes them all
C8_Step ==
    LET old == IndexMap(indexFile)
        new == IndexMap(indexFile')
    IN  /\ \A h \in (DOMAIN old) \cap (DOMAIN new) : old[h] = new[h]
        /\ \/ DOMAIN new = DOMAIN old
           \/ /\ frame[1].pc = "add_entry"
              /\ frame[1].invoked
              /\ frame[1].value = Apply(frame[1].call)
              /\ frame[1].hash \notin DOMAIN old
              /\ DOMAIN new = (DOMAIN old) \cup {frame[1].hash}
           \/ /\ frame[1].pc = "sweep"
              /\ DOMAIN new \subseteq DOMAIN old
              /\ \A h \in (DOMAIN old) \ (DOMAIN new) : _is_expired(old[h], now)
           \/ /\ frame'[1].op = "clear_cache"
              /\ DOMAIN new = {}

\* C8: every step leaves the entries that stay in the index file unchanged and
\* changes its keys only by a miss adding its key, a sweep removing expired
\* keys or clear_cache removing all.
C8_EntriesImmutable == [][C8_Step]_vars

C8_Witness ==
    /\ Completed("cache")
    /\ frame[1].outcome = "ret"
    /\ frame[1].invoked
    /\ frame[1].hash \notin Keys(frame[1].preIndex)
    /\ Keys(frame[1].preIndex) \cap Keys(indexFile) # {}

\* is_expired has been evaluated on the entry and the time of the probe
ExpiredEvaluated == probe.kind = "is_expired" /\ probe.evaluated

\* C9: _is_expired(entry) at time t is true exactly when the entry has a
\* truthy expires_after and called_at + expires_after >= t; without
\* expires_after, or with 0, it is false, and so it is at every t after
\* called_at + expires_after.
C9_ExpiredWhileBeforeDeadline ==
    ExpiredEvaluated =>
        LET e == probe.entry
            has == "expires_after" \in DOMAIN e
        IN  /\ probe.expired <=>
                (has /\ e.expires_after # 0 /\ e.called_at + e.expires_after >= probe.t)
            /\ (~has \/ e.expires_after = 0) => ~probe.expired
            /\ (has /\ probe.t > e.called_at + e.expires_after) => ~probe.expired

C9_Witness ==
    /\ ExpiredEvaluated
    /\ "expires_after" \in DOMAIN probe.entry
    /\ probe.entry.expires_after = 2
    /\ probe.entry.called_at = 1
    /\ probe.t = 3
    /\ probe.expired

\* the two calls agree on the tuple a fingerprint stands for
SameTuple(a, b) ==
    /\ a.f = b.f
    /\ a.expires_after = b.expires_after
    /\ (a.hash_annotation \/ b.hash_annotation) =>
        (a.hash_annotation = b.hash_annotation /\ a.annotation = b.annotation)
    /\ SameUpToOrder(a.args, b.args)
    /\ a.kwargs = b.kwargs

\* C10: with an injective digest, two calls with the same fingerprint agree
\* on the callable, on expires_after, on the annotation when it is hashed, on
\* the positional arguments up to their order and on the keyword arguments.
C10_FingerprintIdentifiesTuple ==
    (probe.kind = "hash" /\ probe.evaluated /\ probe.hash_a = probe.hash_b)
        => SameTuple(probe.a, probe.b)

\* C11: calls that differ only in the order of their positional arguments
\* have one fingerprint; a cache() call that follows a returned cache() call
\* with the same inputs up to that order is a hit that returns the stored
\* value without invoking the callable, while after a returned call with
\* other inputs, a call whose fingerprint was not cached before is a miss that
\* invokes the callable and adds one index entry.
C11_PermutedArgsShareEntry ==
    /\ (probe.kind = "hash" /\ probe.evaluated /\ Permuted(probe.a, probe.b))
        => probe.hash_a = probe.hash_b
    /\ (/\ Completed("cache")
        /\ frame[1].outcome \in {"ret", "raise"}
        /\ frame[1].prev.op = "cache"
        /\ frame[1].prev.outcome = "ret"
        /\ frame[1].prev.permuted
        /\ ~Truthy(frame[1].call.expires_after))
        => /\ frame[1].hit /\ ~frame[1].invoked
           /\ frame[1].outcome = "ret"
           /\ frame[1].value = frame[1].preObjects[frame[1].hash]
           /\ \E c \in AddCalls : Permuted(c, frame[1].call) /\ frame[1].value = Apply(c)
           /\ indexFile = frame[1].preIndex
    /\ (/\ Completed("cache")
        /\ frame[1].outcome = "ret"
        /\ frame[1].prev.op = "cache"
        /\ frame[1].prev.outcome = "ret"
        /\ ~frame[1].prev.permuted
        /\ ~frame[1].prev.cachedBefore)
        => /\ ~frame[1].hit /\ frame[1].invoked
           /\ frame[1].hash \notin Keys(frame[1].preIndex)
           /\ Keys(indexFile) =
                (Keys(frame[1].preIndex) \ Range(frame[1].to_remove)) \cup {frame[1].hash}
           /\ Len(indexFile) = Len(frame[1].preIndex) - Len(frame[1].to_remove) + 1

\* add(3, 2) right after add(2, 3): a hit on the value add(2, 3) stored
C11_Witness ==
    /\ Completed("cache")
    /\ frame[1].prev.op = "cache"
    /\ frame[1].prev.permuted
    /\ ~frame[1].prev.sameCall
    /\ frame[1].hit
    /\ frame[1].call.args = <<PyInt(3), PyInt(2)>>
    /\ frame[1].value = [f |-> "m.add", args |-> <<PyInt(2), PyInt(3)>>, kwargs |-> NoKwargs]

\* C12: two calls that differ only in the value of _annotation, an absent
\* annotation included, have the same fingerprint when _hash_annotation is
\* false and different fingerprints when it is true.
C12_AnnotationGating ==
    (/\ probe.kind = "hash"
     /\ probe.evaluated
     /\ probe.a.annotation # probe.b.annotation)
    => IF probe.a.hash_annotation
       THEN probe.hash_a # probe.hash_b
       ELSE probe.hash_a = probe.hash_b

\* C13: at every state of one process at a time, between operations, inside
\* cache() and inside the sweep, and after a crash at any step, every
\* fingerprint of the index file has an object file.
C13_NoDanglingEntry == Keys(indexFile) \subseteq DOMAIN objects

\* a crash has left an object file without an index entry
C13_Witness ==
    /\ frame[1].pc = "idle"
    /\ indexExists
    /\ (DOMAIN objects) \ Keys(indexFile) # {}

\* C15: when the INIT step of cache() has returned, the cache root and the
\* index file exist, whatever the state cache() started from, and an index
\* file that existed is unchanged.
C15_InitEnsuresRootAndIndex ==
    (frame[1].op = "cache" /\ frame[1].pc = "read") =>
        /\ cacheDir
        /\ indexExists
        /\ frame[1].preExists => indexFile = frame[1].preIndex

\* cache() has found its fingerprint in the swept index and the object file
\* is absent
DanglingHit == frame[1].op = "cache" /\ frame[1].hit /\ frame[1].hash \notin DOMAIN objects

\* C14: when the fingerprint of a cache() call is in the swept index and its
\* object file is absent, the call ends with FileNotFoundError without
\* invoking the callable and leaves the index file as the sweep wrote it, the
\* entry included; so a cache() call whose entry is in the index it starts
\* from, is not expired at its sweep and has no object file fails this way,
\* the call that follows a failed one too.
C14_MissingObjectSurfaced ==
    /\ (DanglingHit /\ frame[1].pc = "done") =>
        /\ frame[1].outcome = "error"
        /\ frame[1].error = "FileNotFoundError"
        /\ ~frame[1].invoked
        /\ frame[1].value = NoValue
        /\ indexFile = _remove_entries(frame[1].preIndex, frame[1].to_remove)
        /\ frame[1].hash \in Keys(indexFile)
        /\ EntryAt(indexFile, frame[1].hash) = EntryAt(frame[1].preIndex, frame[1].hash)
        /\ objects = [h \in (DOMAIN frame[1].preObjects) \ Range(frame[1].to_remove)
                        |-> frame[1].preObjects[h]]
    /\ (/\ Completed("cache")
        /\ frame[1].hash \in Keys(frame[1].preIndex)
        /\ frame[1].hash \notin DOMAIN frame[1].preObjects
        /\ ~_is_expired(EntryAt(frame[1].preIndex, frame[1].hash), frame[1].swept_at)
        /\ \A h \in Range(frame[1].to_remove) : h \in DOMAIN frame[1].preObjects)
        => (DanglingHit /\ frame[1].outcome = "error")

\* the same call fails a second time on the entry without object file
C14_Witness ==
    /\ Completed("cache")
    /\ DanglingHit
    /\ frame[1].outcome = "error"
    /\ frame[1].prev.op = "cache"
    /\ frame[1].prev.sameCall
    /\ frame[1].prev.outcome = "error"
    /\ frame[1].prev.cachedBefore

\* the places in to_remove of the expired fingerprints without object file
\* when the operation started
MissingAtSweep ==
    {i \in 1..Len(frame[1].to_remove) : frame[1].to_remove[i] \notin DOMAIN frame[1].preObjects}

\* the first of them
FirstMissing == CHOOSE i \in MissingAtSweep : \A j \in MissingAtSweep : i <= j

\* the operation has swept, or is removing the object files of its sweep
Sweeping == frame[1].op \in {"cache", "get_index"} /\ frame[1].pc \in {"remove", "done"}

\* C20: a sweep that meets an expired entry without object file has written
\* the index without the expired entries before it removes any file; the
\* operation ends with FileNotFoundError at the first missing file, the
\* files before it removed and the files of the expired fingerprints after
\* it left on disk without index entry; the sweep of the operation that
\* follows a failed one finds nothing expired, so that operation fails only
\* on a missing index file or on a hit without object file.
C20_SweepFailsAfterIndexWrite ==
    /\ (Sweeping /\ MissingAtSweep # {}) =>
        /\ Range(frame[1].to_remove) = ExpiredAtSweep
        /\ indexFile = _remove_entries(frame[1].preIndex, frame[1].to_remove)
        /\ Keys(indexFile) \cap ExpiredAtSweep = {}
        /\ frame[1].pc = "done" =>
            /\ frame[1].outcome = "error"
            /\ frame[1].error = "FileNotFoundError"
            /\ ~frame[1].invoked /\ ~frame[1].hit
            /\ frame[1].removed = FirstMissing - 1
            /\ DOMAIN objects =
                (DOMAIN frame[1].preObjects)
                    \ {frame[1].to_remove[i] : i \in 1..(FirstMissing - 1)}
            /\ \A i \in (FirstMissing + 1)..Len(frame[1].to_remove) :
                    frame[1].to_remove[i] \in DOMAIN frame[1].preObjects
                        => /\ frame[1].to_remove[i] \in DOMAIN objects
                           /\ frame[1].to_remove[i] \notin Keys(indexFile)
    /\ (frame[1].op \in {"cache", "get_index"} /\ frame[1].prev.outcome = "error") =>
        /\ frame[1].to_remove = <<>>
        /\ (frame[1].pc = "done" /\ frame[1].outcome = "error")
            => (DanglingHit \/ ~frame[1].preExists)

\* two expired entries, the first without object file: the file of the second
\* stays, without index entry
C20_Witness ==
    /\ frame[1].pc = "done"
    /\ frame[1].op \in {"cache", "get_index"}
    /\ frame[1].outcome = "error"
    /\ Len(frame[1].to_remove) = 2
    /\ MissingAtSweep = {1}
    /\ frame[1].to_remove[2] \in DOMAIN objects
    /\ frame[1].to_remove[2] \notin Keys(indexFile)

\* C16: whether or not the configured root is the current working directory,
\* the first cache() call completes and leaves the cache root and the index
\* file under the configured root, and a cache() call with the same inputs
\* that follows a returned one completes on that root, as a hit when the call
\* does not expire.
C16_ConfiguredRootUsed ==
    /\ (Completed("cache") /\ frame[1].prev.op = "none") =>
        /\ frame[1].outcome \in {"ret", "raise"}
        /\ cacheDir
        /\ indexExists
        /\ ~rootIsCwd => ~cwdDir
    /\ (/\ Completed("cache")
        /\ frame[1].prev.op = "cache"
        /\ frame[1].prev.outcome = "ret"
        /\ frame[1].prev.sameCall) =>
        /\ frame[1].outcome \in {"ret", "raise"}
        /\ frame[1].preDir /\ frame[1].preExists
        /\ ~Truthy(frame[1].call.expires_after) => frame[1].hit

\* process p has returned from a miss
ReturnedMiss(p) ==
    /\ frame[p].pc = "done"
    /\ frame[p].op = "cache"
    /\ frame[p].outcome = "ret"
    /\ frame[p].invoked

\* C17: when two processes have returned from misses of different
\* fingerprints, the index file is the whole document one of them wrote last,
\* its own entry in it, and the object file of a call without expiration is
\* on disk with the value of its process; the index file need not hold the
\* entry of the other process.
C17_LastWriterWins ==
    (ReturnedMiss(1) /\ ReturnedMiss(2) /\ frame[1].hash # frame[2].hash) =>
        /\ \E w \in Frames :
                /\ indexFile = frame[w].index
                /\ frame[w].hash \in Keys(indexFile)
        /\ \A p \in Frames :
                ~Truthy(frame[p].call.expires_after) =>
                    /\ frame[p].hash \in DOMAIN objects
                    /\ objects[frame[p].hash] = frame[p].value

\* both processes missed on the empty index and wrote their object file and
\* the index; the index file holds the entry of process 2 only
C17_Witness ==
    /\ ReturnedMiss(1)
    /\ ReturnedMiss(2)
    /\ frame[1].hash # frame[2].hash
    /\ frame[1].prev.op = "none"
    /\ frame[2].prev.op = "none"
    /\ Keys(indexFile) = {frame[2].hash}
    /\ DOMAIN objects = {frame[1].hash, frame[2].hash}
    /\ frame[1].hash \in Keys(frame[1].index)

\* C18: when a cache() call has returned from a miss whose callable called
\* cache() for another fingerprint, a miss too, both fingerprints are in the
\* index file and both have their object file.
C18_NestedEntriesKept ==
    (/\ ReturnedMiss(1)
     /\ frame[1].prev.op = "cache"
     /\ ReturnedMiss(2)
     /\ frame[1].hash # frame[2].hash)
    => /\ {frame[1].hash, frame[2].hash} \subseteq Keys(indexFile)
       /\ {frame[1].hash, frame[2].hash} \subseteq DOMAIN objects

\* the entry has 'expires_after'
HasExpiry(entry) == "expires_after" \in DOMAIN entry

\* the fingerprints of the index whose entries have 'expires_after' and are
\* not expired at time t
Survivors(index, t) ==
    {h \in Keys(index) : HasExpiry(EntryAt(index, h)) /\ ~_is_expired(EntryAt(index, h), t)}

\* an entry with 'expires_after' that the sweep of the operation has kept is
\* in the index file, unchanged and not expired now; a cache() call whose
\* entry was there and not expired at its sweep is a hit
C19_Kept ==
    /\ AfterSweep =>
        \A h \in Keys(frame[1].preIndex) \ Range(frame[1].to_remove) :
            HasExpiry(EntryAt(frame[1].preIndex, h)) =>
                /\ h \in Survivors(indexFile, now)
                /\ EntryAt(indexFile, h) = EntryAt(frame[1].preIndex, h)
    /\ (/\ Completed("cache")
        /\ frame[1].outcome \in {"ret", "raise"}
        /\ frame[1].hash \in Survivors(frame[1].preIndex, frame[1].swept_at))
        => /\ frame[1].hit /\ ~frame[1].invoked
           /\ frame[1].outcome = "ret"
           /\ frame[1].value = frame[1].preObjects[frame[1].hash]

\* one step: an entry with 'expires_after' that is not expired now stays in
\* the index file, unchanged and not expired, unless the step is clear_cache
C19_Step ==
    \A h \in Survivors(indexFile, now) :
        \/ /\ h \in Survivors(indexFile', now')
           /\ EntryAt(indexFile', h) = EntryAt(indexFile, h)
        \/ /\ frame'[1].op = "clear_cache"
           /\ frame'[1] # frame[1]
           /\ indexFile' = <<>>

\* C19: with the clock of the model, which never goes back, an entry with
\* expires_after that a sweep has kept is not expired from then on: no later
\* sweep removes it, only clear_cache takes it out of the index, and every
\* later cache() call with its inputs is a hit.
C19_SurvivorStays == []C19_Kept /\ [][C19_Step]_vars

\* a hit on an entry with expires_after that the sweep of the cache() call
\* before, one with other inputs, had kept already
C19_Witness ==
    /\ Completed("cache")
    /\ frame[1].hit
    /\ frame[1].outcome = "ret"
    /\ HasExpiry(EntryAt(indexFile, frame[1].hash))
    /\ frame[1].prev.op = "cache"
    /\ frame[1].prev.outcome = "ret"
    /\ ~frame[1].prev.sameCall
    /\ frame[1].prev.cachedBefore

====
